---- MODULE Spec2Model ----
(***************************************************************************)
(* Model of the appointment engine of consultoriosmonn:                    *)
(*   - HorarioAtencion.generar_slots          (src/models_admin.py)        *)
(*   - GeneradorTurnos.obtener_slots_disponibles / validar_turno /         *)
(*     obtener_proximas_fechas_disponibles    (src/turno_generator.py)     *)
(*   - nuevo_turno, cancelar_turno, marcar_abonado, aprobar_pago,          *)
(*     rechazar_pago, atender_turno           (src/app.py)                 *)
(*                                                                         *)
(* Times of day are minutes since midnight; a datetime of the date the     *)
(* generator works on is the number of minutes since that date's midnight  *)
(* (it may pass 24*60), and datetime.time() is the remainder modulo 24*60. *)
(* Dates are day numbers; date.weekday() is the day number modulo 7.       *)
(* A nullable column is a sequence of length 0 (NULL) or 1.                *)
(***************************************************************************)
EXTENDS Integers, Sequences, FiniteSets, TLC

VARIABLES
    config,        \* configuracion_especialista: especialista_id -> NULL | row
    horarios,      \* horarios_atencion, in id order
    bloqueos,      \* bloqueos_horario, in id order
    turnos,        \* turnos, in id order (the committed ledger)
    pagos,         \* pagos: turno id -> NULL | EstadoPago
    suscripcion,   \* the patient's suscripciones_prepaga row
    req,           \* the nuevo_turno requests in flight
    consulta,      \* the last answer of obtener_slots_disponibles
    validacion,    \* the last answer of validar_turno
    proximas,      \* the last answer of obtener_proximas_fechas_disponibles
    g_pc,          \* generar_slots: position of the call
    g_horario,     \* generar_slots: self
    g_duracion,    \* generar_slots: local duracion
    hora_actual,   \* generar_slots: local hora_actual
    hora_limite,   \* generar_slots: local hora_limite
    slots,         \* generar_slots: local slots
    g_llamadas,    \* number of finished calls on g_horario
    g_anterior     \* the list the previous call returned

vars == <<config, horarios, bloqueos, turnos, pagos, suscripcion, req, consulta,
          validacion, proximas, g_pc, g_horario, g_duracion, hora_actual, hora_limite, slots,
          g_llamadas, g_anterior>>

dbVars == <<config, horarios, bloqueos, turnos, pagos, suscripcion>>
genVars == <<g_pc, g_horario, g_duracion, hora_actual, hora_limite, slots,
             g_llamadas, g_anterior>>
respVars == <<consulta, validacion, proximas>>

----------------------------------------------------------------------------
(* Nullable values *)

NULL == <<>>
Some(x) == <<x>>
IsNull(o) == o = <<>>
Val(o) == o[1]

----------------------------------------------------------------------------
(* Bounds of the model *)

MaxBuffer == 10
MaxLlamadas == 2

(* EstadoTurno, EstadoPago *)
PENDIENTE == "pendiente"
CONFIRMADO == "confirmado"
REALIZADO == "realizado"
CANCELADO == "cancelado"
APROBADO == "aprobado"
RECHAZADO == "rechazado"
ABONADO_EFECTIVO == "abonado_efectivo"

EstadoTurno == {PENDIENTE, CONFIRMADO, REALIZADO, CANCELADO}
EstadoPago == {PENDIENTE, APROBADO, RECHAZADO, ABONADO_EFECTIVO}

(* the duration generar_slots uses when the specialist has no configuration *)
DuracionDefault == 30

MinutosPorDia == 24 * 60

(* datetime.combine(fecha, t): minutes since the midnight of fecha *)
Combine(t) == t

(* datetime.time(): the time of day of a datetime *)
TimeOf(dt) == dt % MinutosPorDia

(* ConfiguracionEspecialista.query.filter_by(especialista_id=e).first() *)
ConfigDe(e) == config[e]

----------------------------------------------------------------------------
(* HorarioAtencion.generar_slots, one loop iteration per step *)

(* the windows and configurations the generator is run on: windows with
   hora_fin > hora_inicio, as agregar_horario stores them, durations > 0 and
   buffers >= 0; an override of 0 counts as no override (line 135) *)
GenEspecialistas == {1}
GenInicios == {480, 495}
GenFines == {540, 600, 610}
GenDuraciones == {15, 30}
GenCustoms == {NULL, Some(0), Some(20), Some(45)}
GenBuffers == 0..MaxBuffer

GenHorarios ==
    { [especialista_id |-> e, especialidad_id |-> 1,
       dia_semana |-> 0, hora_inicio |-> i, hora_fin |-> f,
       duracion_turno_custom |-> c, activo |-> TRUE] :
         e \in GenEspecialistas, i \in GenInicios, f \in GenFines,
         c \in GenCustoms }

GenConfigs ==
    {NULL} \cup
    { Some([duracion_turno_minutos |-> d, pacientes_maximos_dia |-> 20,
            tiempo_buffer_minutos |-> b, permite_sobreturnos |-> FALSE,
            sobreturnos_maximos |-> 0]) :
         d \in GenDuraciones, b \in GenBuffers }

(* lines 135-141: the effective duration *)
Duracion_sinCustom(h) ==
    IF ~IsNull(ConfigDe(h.especialista_id))
    THEN Val(ConfigDe(h.especialista_id)).duracion_turno_minutos
    ELSE DuracionDefault
Duracion(h) ==
    IF ~IsNull(h.duracion_turno_custom) /\ Val(h.duracion_turno_custom) # 0
    THEN Val(h.duracion_turno_custom)
    ELSE IF ~IsNull(ConfigDe(h.especialista_id))
         THEN Val(ConfigDe(h.especialista_id)).duracion_turno_minutos
         ELSE DuracionDefault

(* lines 157-161: the buffer, read again in every iteration *)
Buffer(h) ==
    IF ~IsNull(ConfigDe(h.especialista_id))
    THEN Val(ConfigDe(h.especialista_id)).tiempo_buffer_minutos
    ELSE 0

(* line 150: a slot is kept only if it ends within the window *)
SlotCabe_sinLimite(hora_fin_slot, limite) == TRUE
SlotCabe_estricto(hora_fin_slot, limite) == hora_fin_slot < limite
SlotCabe(hora_fin_slot, limite) == hora_fin_slot <= limite

(* line 162: the next cursor *)
Avanzar_sinBuffer(hora_fin_slot, buffer) == hora_fin_slot
Avanzar(hora_fin_slot, buffer) == hora_fin_slot + buffer

(* line 132: the list a call starts with *)
SlotsIniciales_compartidos(anteriores) == anteriores
SlotsIniciales(anteriores) == <<>>

(* lines 132-145 *)
GenBegin ==
    /\ g_pc = "idle"
    /\ slots' = SlotsIniciales(slots)
    /\ g_duracion' = Duracion(g_horario)
    /\ hora_actual' = Combine(g_horario.hora_inicio)
    /\ hora_limite' = Combine(g_horario.hora_fin)
    /\ g_pc' = "loop"
    /\ UNCHANGED <<g_horario, g_llamadas, g_anterior>>
    /\ UNCHANGED <<dbVars, req, respVars>>

(* lines 148-162: the body of the while loop, from the cursor and the list
   so far to the new list and the new cursor *)
Iteracion(h, duracion, limite, cursor, acc) ==
    LET hora_fin_slot == cursor + duracion
    IN [slots |-> IF SlotCabe(hora_fin_slot, limite)
                  THEN Append(acc, <<TimeOf(cursor), TimeOf(hora_fin_slot)>>)
                  ELSE acc,
        hora_actual |-> Avanzar(hora_fin_slot, Buffer(h))]

(* lines 147-162: one iteration of the while loop *)
GenStep ==
    /\ g_pc = "loop"
    /\ hora_actual < hora_limite
    /\ LET it == Iteracion(g_horario, g_duracion, hora_limite, hora_actual, slots)
       IN /\ slots' = it.slots
          /\ hora_actual' = it.hora_actual
    /\ UNCHANGED <<g_pc, g_horario, g_duracion, hora_limite, g_llamadas, g_anterior>>
    /\ UNCHANGED <<dbVars, req, respVars>>

(* lines 147, 164: the loop ends and the list is returned *)
GenReturn ==
    /\ g_pc = "loop"
    /\ ~(hora_actual < hora_limite)
    /\ g_pc' = "done"
    /\ g_llamadas' = g_llamadas + 1
    /\ UNCHANGED <<g_horario, g_duracion, hora_actual, hora_limite, slots, g_anterior>>
    /\ UNCHANGED <<dbVars, req, respVars>>

(* the caller keeps the returned list and calls generar_slots again on the
   same window, date and configuration *)
GenAgain ==
    /\ g_pc = "done"
    /\ g_llamadas < MaxLlamadas
    /\ g_anterior' = slots
    /\ g_pc' = "idle"
    /\ UNCHANGED <<g_horario, g_duracion, hora_actual, hora_limite, slots, g_llamadas>>
    /\ UNCHANGED <<dbVars, req, respVars>>

InitGen ==
    /\ g_horario \in GenHorarios
    /\ config \in [GenEspecialistas -> GenConfigs]
    /\ g_pc = "idle"
    /\ g_duracion = 0
    /\ hora_actual = 0
    /\ hora_limite = 0
    /\ slots = <<>>
    /\ g_llamadas = 0
    /\ g_anterior = <<>>
    /\ horarios = <<>>
    /\ bloqueos = <<>>
    /\ turnos = <<>>
    /\ pagos = <<>>
    /\ suscripcion = NULL
    /\ req = <<>>
    /\ consulta = NULL
    /\ validacion = NULL
    /\ proximas = NULL

NextGen == GenBegin \/ GenStep \/ GenReturn \/ GenAgain

SpecGen == InitGen /\ [][NextGen]_vars

----------------------------------------------------------------------------
(* generar_slots on what the forms store: crear_especialista and
   editar_especialista store int(form value) for the duration and the buffer,
   agregar_horario stores any window with hora_fin > hora_inicio and any
   integer as duracion_turno_custom.  The test of the while loop and its body
   are separate steps here. *)

AlmInicios == {480}
AlmFines == {500, 540}
AlmDuraciones == {0, 30}
AlmBuffers == {-30, 0, 15}
AlmCustoms == {NULL, Some(0), Some(20), Some(30)}

AlmHorarios ==
    { [especialista_id |-> e, especialidad_id |-> 1,
       dia_semana |-> 0, hora_inicio |-> i, hora_fin |-> f,
       duracion_turno_custom |-> c, activo |-> TRUE] :
         e \in GenEspecialistas, i \in AlmInicios, f \in AlmFines,
         c \in AlmCustoms }

AlmConfigs ==
    {NULL} \cup
    { Some([duracion_turno_minutos |-> d, pacientes_maximos_dia |-> 20,
            tiempo_buffer_minutos |-> b, permite_sobreturnos |-> FALSE,
            sobreturnos_maximos |-> 0]) :
         d \in AlmDuraciones, b \in AlmBuffers }

(* the stored values whose call goes through finitely many states: the
   cursor moves forward in every iteration, or it stays where it is and no
   slot fits the window.  The other stored values (a cursor that moves
   backwards, or a slot of length 0 appended again and again) make the
   cursor or the list grow without bound. *)
RecorridoFinito(h) ==
    \/ Duracion(h) + Buffer(h) > 0
    \/ /\ Duracion(h) + Buffer(h) = 0
       /\ Duracion(h) > h.hora_fin - h.hora_inicio

(* line 147: the test of the while loop holds *)
GenTest ==
    /\ g_pc = "loop"
    /\ hora_actual < hora_limite
    /\ g_pc' = "body"
    /\ UNCHANGED <<g_horario, g_duracion, hora_actual, hora_limite, slots,
                   g_llamadas, g_anterior>>
    /\ UNCHANGED <<dbVars, req, respVars>>

(* lines 148-162: the body of the while loop *)
GenBody ==
    /\ g_pc = "body"
    /\ LET it == Iteracion(g_horario, g_duracion, hora_limite, hora_actual, slots)
       IN /\ slots' = it.slots
          /\ hora_actual' = it.hora_actual
    /\ g_pc' = "loop"
    /\ UNCHANGED <<g_horario, g_duracion, hora_limite, g_llamadas, g_anterior>>
    /\ UNCHANGED <<dbVars, req, respVars>>

InitAlm ==
    /\ g_horario \in AlmHorarios
    /\ config \in [GenEspecialistas -> AlmConfigs]
    /\ RecorridoFinito(g_horario)
    /\ g_pc = "idle"
    /\ g_duracion = 0
    /\ hora_actual = 0
    /\ hora_limite = 0
    /\ slots = <<>>
    /\ g_llamadas = 0
    /\ g_anterior = <<>>
    /\ horarios = <<>>
    /\ bloqueos = <<>>
    /\ turnos = <<>>
    /\ pagos = <<>>
    /\ suscripcion = NULL
    /\ req = <<>>
    /\ consulta = NULL
    /\ validacion = NULL
    /\ proximas = NULL

NextAlm == GenBegin \/ GenTest \/ GenBody \/ GenReturn

(* a call that has started keeps running *)
SpecAlm == InitAlm /\ [][NextAlm]_vars /\ WF_vars(NextAlm)

----------------------------------------------------------------------------
(* Queries of GeneradorTurnos on the committed tables *)

Min(S) == CHOOSE x \in S : \A y \in S : x <= y

(* date.weekday() *)
Weekday(fecha) == fecha % 7

(* Turno.estado.in_([PENDIENTE, CONFIRMADO]) *)
Ocupa_todos(t) == t.estado \in EstadoTurno
Ocupa(t) == t.estado \in {PENDIENTE, CONFIRMADO}

(* the count of the occupying appointments of a specialist on a date *)
TurnosDelDia_sinFecha(e, fecha) ==
    Cardinality({ i \in DOMAIN turnos :
                    turnos[i].especialista_id = e /\ Ocupa(turnos[i]) })
TurnosDelDia(e, fecha) ==
    Cardinality({ i \in DOMAIN turnos :
                    /\ turnos[i].especialista_id = e
                    /\ turnos[i].fecha = fecha
                    /\ Ocupa(turnos[i]) })

(* the first occupying appointment at (specialist, date, time): NULL or its id *)
TurnoExistente(e, fecha, hora) ==
    LET S == { i \in DOMAIN turnos :
                 /\ turnos[i].especialista_id = e
                 /\ turnos[i].fecha = fecha
                 /\ turnos[i].hora = hora
                 /\ Ocupa(turnos[i]) }
    IN IF S = {} THEN NULL ELSE Some(Min(S))

(* the active windows of (specialist, specialty, weekday), in id order *)
HorariosDelDia(e, esp, dia) ==
    SelectSeq(horarios, LAMBDA h : /\ h.especialista_id = e
                                   /\ h.especialidad_id = esp
                                   /\ h.dia_semana = dia
                                   /\ h.activo)

(* the active blocks of the specialist whose date range holds fecha, in id order *)
BloqueosDelDia_sinFecha(e, fecha) ==
    SelectSeq(bloqueos, LAMBDA b : b.especialista_id = e /\ b.activo)
BloqueosDelDia(e, fecha) ==
    SelectSeq(bloqueos, LAMBDA b : /\ b.especialista_id = e
                                   /\ b.fecha_inicio <= fecha
                                   /\ b.fecha_fin >= fecha
                                   /\ b.activo)

(* HorarioAtencion.generar_slots as a function of the window: the list the
   loop of GenBegin / GenStep / GenReturn returns *)
RECURSIVE GenerarDesde(_, _, _)
GenerarDesde(h, cursor, acc) ==
    IF cursor < Combine(h.hora_fin)
    THEN LET it == Iteracion(h, Duracion(h), Combine(h.hora_fin), cursor, acc)
         IN GenerarDesde(h, it.hora_actual, it.slots)
    ELSE acc

GenerarSlots(h) == GenerarDesde(h, Combine(h.hora_inicio), SlotsIniciales(<<>>))

(* lines 75-85: the loop over the blocks, with its breaks *)
Bloqueado_soloPrimero(hora_inicio, bs) ==
    IF bs = <<>> THEN FALSE
    ELSE IF ~IsNull(Head(bs).hora_inicio) /\ ~IsNull(Head(bs).hora_fin)
         THEN /\ hora_inicio >= Val(Head(bs).hora_inicio)
              /\ hora_inicio < Val(Head(bs).hora_fin)
         ELSE TRUE

RECURSIVE Bloqueado(_, _)
Bloqueado(hora_inicio, bs) ==
    IF bs = <<>> THEN FALSE
    ELSE LET bloqueo == Head(bs)
         IN IF ~IsNull(bloqueo.hora_inicio) /\ ~IsNull(bloqueo.hora_fin)
            THEN IF /\ hora_inicio >= Val(bloqueo.hora_inicio)
                    /\ hora_inicio < Val(bloqueo.hora_fin)
                 THEN TRUE
                 ELSE Bloqueado(hora_inicio, Tail(bs))
            ELSE TRUE

(* lines 87-101: the row of a slot that is not blocked *)
FilaSlot(e, fecha, s) ==
    LET turno_existente == TurnoExistente(e, fecha, s[1])
    IN [hora_inicio |-> s[1], hora_fin |-> s[2],
        disponible |-> IsNull(turno_existente),
        turno_id |-> turno_existente]

(* lines 73-101: the rows of the slots of one window *)
FilasDe(ss, bs, e, fecha) ==
    LET libres == SelectSeq(ss, LAMBDA s : ~Bloqueado(s[1], bs))
    IN [i \in 1..Len(libres) |-> FilaSlot(e, fecha, libres[i])]

(* lines 70-101: the loop over the windows *)
RECURSIVE TodosSlots(_, _, _, _)
TodosSlots(hs, bs, e, fecha) ==
    IF hs = <<>> THEN <<>>
    ELSE FilasDe(GenerarSlots(Head(hs)), bs, e, fecha)
           \o TodosSlots(Tail(hs), bs, e, fecha)

(* line 65-67: the day is full and overflow is not allowed *)
CupoAgotado_nunca(turnos_del_dia, cfg) == FALSE
CupoAgotado(turnos_del_dia, cfg) ==
    /\ turnos_del_dia >= cfg.pacientes_maximos_dia
    /\ ~cfg.permite_sobreturnos

(* GeneradorTurnos.obtener_slots_disponibles *)
ObtenerSlotsDisponibles_sinConfig(e, esp, fecha) ==
    LET hs == HorariosDelDia(e, esp, Weekday(fecha))
        bs == BloqueosDelDia(e, fecha)
        cfg == ConfigDe(e)
    IN IF hs = <<>> THEN <<>>
       ELSE IF IsNull(cfg) THEN TodosSlots(hs, bs, e, fecha)
       ELSE IF CupoAgotado(TurnosDelDia(e, fecha), Val(cfg)) THEN <<>>
       ELSE TodosSlots(hs, bs, e, fecha)
ObtenerSlotsDisponibles(e, esp, fecha) ==
    LET hs == HorariosDelDia(e, esp, Weekday(fecha))
        bs == BloqueosDelDia(e, fecha)
        cfg == ConfigDe(e)
    IN IF hs = <<>> THEN <<>>
       ELSE IF IsNull(cfg) THEN <<>>
       ELSE IF CupoAgotado(TurnosDelDia(e, fecha), Val(cfg)) THEN <<>>
       ELSE TodosSlots(hs, bs, e, fecha)

(* lines 130, 134: the slots of the date that are disponible *)
HayDisponible_alguno(ss) == ss # <<>>
HayDisponible(ss) == \E k \in DOMAIN ss : ss[k].disponible

Disponibles(ss) == Cardinality({ k \in DOMAIN ss : ss[k].disponible })

(* lines 131-136: the row of a date *)
FilaFecha(fecha, ss) ==
    [fecha |-> fecha, dia_semana |-> Weekday(fecha),
     slots_disponibles |-> Disponibles(ss), slots_totales |-> Len(ss)]

(* lines 121-136: the loop over range(dias_adelante), from i on *)
RECURSIVE ProximasDesde(_, _, _, _, _, _)
ProximasDesde(e, esp, fecha_actual, i, dias_adelante, fechas_disponibles) ==
    IF i < dias_adelante
    THEN LET fecha == fecha_actual + i
             ss == ObtenerSlotsDisponibles(e, esp, fecha)
         IN ProximasDesde(e, esp, fecha_actual, i + 1, dias_adelante,
                          IF HayDisponible(ss)
                          THEN Append(fechas_disponibles, FilaFecha(fecha, ss))
                          ELSE fechas_disponibles)
    ELSE fechas_disponibles

(* GeneradorTurnos.obtener_proximas_fechas_disponibles, with fecha_actual the
   value of date.today() *)
ObtenerProximasFechasDisponibles(e, esp, fecha_actual, dias_adelante) ==
    ProximasDesde(e, esp, fecha_actual, 0, dias_adelante, <<>>)

(* GeneradorTurnos.validar_turno: (es_valido, mensaje) *)
Respuesta(ok, mensaje) == [ok |-> ok, mensaje |-> mensaje]

(* lines 155-156: the window holds the time, its end excluded *)
Contiene_cerrado(h, hora) == h.hora_inicio <= hora /\ h.hora_fin >= hora
Contiene(h, hora) == h.hora_inicio <= hora /\ h.hora_fin > hora

(* lines 164-169: .first() of a query with no ORDER BY gives one of the rows
   of the date, or None *)
PrimerBloqueo(e, fecha) ==
    LET bs == BloqueosDelDia(e, fecha)
    IN IF bs = <<>> THEN {NULL} ELSE { Some(bs[i]) : i \in DOMAIN bs }

(* line 203: the overflow appointments are used up *)
SobreturnosAgotados_estricto(turnos_del_dia, cfg) ==
    turnos_del_dia > cfg.pacientes_maximos_dia + cfg.sobreturnos_maximos
SobreturnosAgotados(turnos_del_dia, cfg) ==
    turnos_del_dia >= cfg.pacientes_maximos_dia + cfg.sobreturnos_maximos

(* validar_turno, with bloqueo the row that the query of lines 164-169 gave *)
ValidarTurnoCon(e, esp, fecha, hora, bloqueo) ==
    LET hs == SelectSeq(HorariosDelDia(e, esp, Weekday(fecha)),
                        LAMBDA h : Contiene(h, hora))
        cfg == ConfigDe(e)
        turnos_del_dia == TurnosDelDia(e, fecha)
    IN IF hs = <<>>
       THEN Respuesta(FALSE, "El especialista no atiende en ese horario")
       ELSE IF ~IsNull(bloqueo) /\ IsNull(Val(bloqueo).hora_inicio)
       THEN Respuesta(FALSE, "Horario bloqueado")
       ELSE IF ~IsNull(bloqueo) /\ Val(Val(bloqueo).hora_inicio) <= hora
                                /\ IsNull(Val(bloqueo).hora_fin)
       THEN Respuesta(FALSE, "TypeError")
       ELSE IF ~IsNull(bloqueo) /\ Val(Val(bloqueo).hora_inicio) <= hora
                                /\ hora < Val(Val(bloqueo).hora_fin)
       THEN Respuesta(FALSE, "Horario bloqueado")
       ELSE IF ~IsNull(TurnoExistente(e, fecha, hora))
       THEN Respuesta(FALSE, "Ya existe un turno en ese horario")
       ELSE IF /\ ~IsNull(cfg)
               /\ turnos_del_dia >= Val(cfg).pacientes_maximos_dia
               /\ ~Val(cfg).permite_sobreturnos
       THEN Respuesta(FALSE, "Cupo maximo diario alcanzado")
       ELSE IF /\ ~IsNull(cfg)
               /\ turnos_del_dia >= Val(cfg).pacientes_maximos_dia
               /\ SobreturnosAgotados(turnos_del_dia, Val(cfg))
       THEN Respuesta(FALSE, "Cupo maximo de sobreturnos alcanzado")
       ELSE Respuesta(TRUE, "Turno valido")

(* validar_turno when the query of the blocks gives the row of lowest id *)
ValidarTurno(e, esp, fecha, hora) ==
    LET bs == BloqueosDelDia(e, fecha)
    IN ValidarTurnoCon(e, esp, fecha, hora,
                       IF bs = <<>> THEN NULL ELSE Some(Head(bs)))

----------------------------------------------------------------------------
(* The booking flow and the state transitions of src/app.py.  A request of
   nuevo_turno runs in its own database session: what it reads is what is
   committed when it reads, and its rows are seen by the others when it
   commits.  A request in flight keeps the form data and the suscripcion row
   it loaded; visto, the number of committed appointments at the time of its
   check, is history that the properties refer to. *)

MaxTurnos == 2
MaxEnVuelo == 2
MaxConsultas == 1

ACTIVA == "activa"

BookEspecialistas == {1}
BookEspecialidades == {1}
BookFechas == {0}
BookHoras == {480, 510, 540}

Quitar(seq, i) == [j \in 1..(Len(seq) - 1) |-> IF j < i THEN seq[j] ELSE seq[j + 1]]

(* lines 536-541: only a PENDIENTE appointment at the slot stops a booking *)
ExistePendiente_ocupante(e, fecha, hora) ==
    \E i \in DOMAIN turnos : /\ turnos[i].especialista_id = e
                             /\ turnos[i].fecha = fecha
                             /\ turnos[i].hora = hora
                             /\ Ocupa(turnos[i])
ExistePendiente(e, fecha, hora) ==
    \E i \in DOMAIN turnos : /\ turnos[i].especialista_id = e
                             /\ turnos[i].fecha = fecha
                             /\ turnos[i].hora = hora
                             /\ turnos[i].estado = PENDIENTE

(* SuscripcionPrepaga.tiene_consultas_disponibles on a loaded row *)
TieneConsultasDisponibles(sus) ==
    IF sus.estado # ACTIVA THEN FALSE
    ELSE sus.consultas_consumidas < sus.consultas_disponibles

(* SuscripcionPrepaga.consumir_consulta on a loaded row *)
ConsumirConsulta(sus) ==
    IF TieneConsultasDisponibles(sus)
    THEN [sus EXCEPT !.consultas_consumidas = @ + 1]
    ELSE sus

(* nuevo_turno, lines 518-551: the form is read, the slot is looked up and
   the active suscripcion of the patient is loaded; a taken slot ends the
   request with a flash message and nothing else *)
NuevoTurnoCheckEn(en_vuelo, horas) ==
    /\ Len(req) < en_vuelo
    /\ Len(turnos) + Len(req) < MaxTurnos
    /\ \E e \in BookEspecialistas, esp \in BookEspecialidades,
          fecha \in BookFechas, hora \in horas :
         IF ExistePendiente(e, fecha, hora)
         THEN UNCHANGED req
         ELSE req' = Append(req, [especialista_id |-> e, especialidad_id |-> esp,
                                  fecha |-> fecha, hora |-> hora,
                                  suscripcion |-> suscripcion,
                                  visto |-> Len(turnos)])
    /\ UNCHANGED <<dbVars, respVars, genVars>>

NuevoTurnoCheckN(en_vuelo) == NuevoTurnoCheckEn(en_vuelo, BookHoras)

(* requests may overlap *)
NuevoTurnoCheck == NuevoTurnoCheckN(MaxEnVuelo)

(* a request starts only when no other request is in flight *)
NuevoTurnoCheckSec == NuevoTurnoCheckN(1)

(* nuevo_turno, lines 554-607: the appointment is inserted; with a plan that
   has consultations left one is consumed and the appointment is confirmed,
   otherwise a pending payment is created; commit *)
NuevoTurnoCommit ==
    \E r \in DOMAIN req :
      LET q == req[r]
          prepaga == ~IsNull(q.suscripcion) /\ TieneConsultasDisponibles(Val(q.suscripcion))
          nuevo == [especialista_id |-> q.especialista_id,
                    especialidad_id |-> q.especialidad_id,
                    fecha |-> q.fecha, hora |-> q.hora,
                    estado |-> IF prepaga THEN CONFIRMADO ELSE PENDIENTE,
                    prepaga |-> prepaga]
      IN /\ turnos' = Append(turnos, nuevo)
         /\ pagos' = Append(pagos, IF prepaga THEN NULL ELSE Some(PENDIENTE))
         /\ suscripcion' =
              IF prepaga
              THEN Some([Val(suscripcion) EXCEPT !.consultas_consumidas =
                           ConsumirConsulta(Val(q.suscripcion)).consultas_consumidas])
              ELSE suscripcion
         /\ req' = Quitar(req, r)
         /\ UNCHANGED <<config, horarios, bloqueos, respVars, genVars>>

(* cancelar_turno *)
CancelarTurno_borra ==
    /\ \E i \in DOMAIN turnos :
         /\ turnos' = Quitar(turnos, i)
         /\ pagos' = Quitar(pagos, i)
    /\ UNCHANGED <<config, horarios, bloqueos, suscripcion, req, respVars, genVars>>
CancelarTurno ==
    /\ \E i \in DOMAIN turnos :
         turnos' = IF turnos[i].estado = REALIZADO
                   THEN turnos
                   ELSE [turnos EXCEPT ![i].estado = CANCELADO]
    /\ UNCHANGED <<config, horarios, bloqueos, pagos, suscripcion, req, respVars, genVars>>

(* subir_comprobante, lines 863-871 *)
SubirComprobante ==
    /\ \E i \in DOMAIN pagos :
         /\ ~IsNull(pagos[i])
         /\ pagos' = [pagos EXCEPT ![i] = Some(PENDIENTE)]
    /\ UNCHANGED <<config, horarios, bloqueos, turnos, suscripcion, req, respVars, genVars>>

(* marcar_abonado *)
MarcarAbonado ==
    /\ \E i \in DOMAIN pagos :
         /\ ~IsNull(pagos[i])
         /\ IF Val(pagos[i]) = ABONADO_EFECTIVO
            THEN UNCHANGED <<pagos, turnos>>
            ELSE /\ pagos' = [pagos EXCEPT ![i] = Some(ABONADO_EFECTIVO)]
                 /\ turnos' = [turnos EXCEPT ![i].estado = CONFIRMADO]
    /\ UNCHANGED <<config, horarios, bloqueos, suscripcion, req, respVars, genVars>>

(* aprobar_pago *)
AprobarPago ==
    /\ \E i \in DOMAIN pagos :
         /\ ~IsNull(pagos[i])
         /\ pagos' = [pagos EXCEPT ![i] = Some(APROBADO)]
         /\ turnos' = [turnos EXCEPT ![i].estado = CONFIRMADO]
    /\ UNCHANGED <<config, horarios, bloqueos, suscripcion, req, respVars, genVars>>

(* rechazar_pago *)
RechazarPago ==
    /\ \E i \in DOMAIN pagos :
         /\ ~IsNull(pagos[i])
         /\ pagos' = [pagos EXCEPT ![i] = Some(RECHAZADO)]
    /\ UNCHANGED <<config, horarios, bloqueos, turnos, suscripcion, req, respVars, genVars>>

(* atender_turno, POST *)
AtenderTurno ==
    /\ \E i \in DOMAIN turnos :
         turnos' = [turnos EXCEPT ![i].estado = REALIZADO]
    /\ UNCHANGED <<config, horarios, bloqueos, pagos, suscripcion, req, respVars, genVars>>

(* the generator variables when no call of generar_slots is modelled *)
GenIdle ==
    /\ g_pc = "idle"
    /\ g_horario = NULL
    /\ g_duracion = 0
    /\ hora_actual = 0
    /\ hora_limite = 0
    /\ slots = <<>>
    /\ g_llamadas = 0
    /\ g_anterior = <<>>

(* one specialist who attends one specialty on weekday 0 from 08:00 to 09:00
   in slots of 30 minutes, with 08:30-09:00 of date 0 blocked, at most one
   patient a day and, when overflow is allowed, one overflow appointment; one
   patient, with or without an active plan *)
Init ==
    /\ \E permite \in BOOLEAN :
         config = [e \in BookEspecialistas |->
                     Some([duracion_turno_minutos |-> 30,
                           pacientes_maximos_dia |-> 1,
                           tiempo_buffer_minutos |-> 0,
                           permite_sobreturnos |-> permite,
                           sobreturnos_maximos |-> IF permite THEN 1 ELSE 0])]
    /\ horarios = << [especialista_id |-> 1, especialidad_id |-> 1,
                      dia_semana |-> 0, hora_inicio |-> 480, hora_fin |-> 540,
                      duracion_turno_custom |-> NULL, activo |-> TRUE] >>
    /\ bloqueos = << [especialista_id |-> 1, fecha_inicio |-> 0, fecha_fin |-> 0,
                      hora_inicio |-> Some(510), hora_fin |-> Some(540),
                      activo |-> TRUE] >>
    /\ turnos = <<>>
    /\ pagos = <<>>
    /\ suscripcion \in {NULL, Some([estado |-> ACTIVA, consultas_consumidas |-> 0,
                                    consultas_disponibles |-> MaxConsultas])}
    /\ req = <<>>
    /\ consulta = NULL
    /\ validacion = NULL
    /\ proximas = NULL
    /\ GenIdle

Next ==
    \/ NuevoTurnoCheck
    \/ NuevoTurnoCommit
    \/ CancelarTurno
    \/ SubirComprobante
    \/ MarcarAbonado
    \/ AprobarPago
    \/ RechazarPago
    \/ AtenderTurno

Spec == Init /\ [][Next]_vars

(* the same operations with the booking requests served one at a time *)
NextSec ==
    \/ NuevoTurnoCheckSec
    \/ NuevoTurnoCommit
    \/ CancelarTurno
    \/ SubirComprobante
    \/ MarcarAbonado
    \/ AprobarPago
    \/ RechazarPago
    \/ AtenderTurno

SpecSec == Init /\ [][NextSec]_vars

----------------------------------------------------------------------------
(* The availability engine on tables that do not change: the tables are drawn
   from rows that the forms of src/admin_routes.py and nuevo_turno can store,
   and obtener_slots_disponibles is asked about them. *)

MaxHorarios == 2
MaxBloqueos == 2
MaxPacientes == 2

SeqsUpTo(S, n) == UNION { [1..k -> S] : k \in 0..n }

Solapan(a, b) == ~(a.hora_fin <= b.hora_inicio \/ a.hora_inicio >= b.hora_fin)

(* windows of specialist 1 on weekday 0, for two specialties *)
Ventana(esp, inicio, fin) ==
    [especialista_id |-> 1, especialidad_id |-> esp, dia_semana |-> 0,
     hora_inicio |-> inicio, hora_fin |-> fin,
     duracion_turno_custom |-> NULL, activo |-> TRUE]

SlotsHorarios == { Ventana(1, 480, 540), Ventana(1, 540, 600), Ventana(2, 480, 540) }

(* agregar_horario, lines 366-383: what the form lets into horarios_atencion *)
HorariosValidos(hs) ==
    /\ \A i \in DOMAIN hs : hs[i].hora_fin > hs[i].hora_inicio
    /\ \A i, j \in DOMAIN hs :
          (/\ i < j
           /\ hs[i].activo /\ hs[j].activo
           /\ hs[i].especialista_id = hs[j].especialista_id
           /\ hs[i].especialidad_id = hs[j].especialidad_id
           /\ hs[i].dia_semana = hs[j].dia_semana) => ~Solapan(hs[i], hs[j])

BloqueoFila(e, desde, hasta, hi, hf, activo) ==
    [especialista_id |-> e, fecha_inicio |-> desde, fecha_fin |-> hasta,
     hora_inicio |-> hi, hora_fin |-> hf, activo |-> activo]

(* a full day of specialist 1 on date 0, a time range of specialist 1 on
   every date and a full-day block that was deactivated *)
SlotsBloqueos ==
    { BloqueoFila(1, 0, 0, NULL, NULL, TRUE),
      BloqueoFila(1, 0, 7, Some(510), Some(540), TRUE),
      BloqueoFila(1, 0, 7, NULL, NULL, FALSE) }

TurnoFila(e, fecha, hora, estado) ==
    [especialista_id |-> e, especialidad_id |-> 1, fecha |-> fecha, hora |-> hora,
     estado |-> estado, prepaga |-> FALSE]

SlotsTurnos ==
    { TurnoFila(1, 0, 480, PENDIENTE), TurnoFila(1, 0, 510, CONFIRMADO),
      TurnoFila(1, 0, 480, CANCELADO) }

SlotsConfigs ==
    {NULL} \cup
    { Some([duracion_turno_minutos |-> 30, pacientes_maximos_dia |-> m,
            tiempo_buffer_minutos |-> 0, permite_sobreturnos |-> p,
            sobreturnos_maximos |-> IF p THEN 1 ELSE 0]) :
         m \in 1..MaxPacientes, p \in BOOLEAN }

SlotsEspecialistas == {1, 2}
ConsultaEspecialistas == {1}
ConsultaEspecialidades == {1, 2}
ConsultaFechas == {0, 7}

(* api_horarios (app.py) and the admin pages: the slots of a specialist,
   specialty and date are asked for and the answer is kept *)
ConsultarSlotsDe(e, esp, fecha) ==
    /\ consulta' = Some([especialista_id |-> e, especialidad_id |-> esp,
                         fecha |-> fecha,
                         slots |-> ObtenerSlotsDisponibles(e, esp, fecha)])
    /\ UNCHANGED <<dbVars, req, validacion, proximas, genVars>>

ConsultarSlots ==
    \E e \in ConsultaEspecialistas, esp \in ConsultaEspecialidades,
       fecha \in ConsultaFechas :
         ConsultarSlotsDe(e, esp, fecha)

InitSlots ==
    /\ horarios \in SeqsUpTo(SlotsHorarios, MaxHorarios)
    /\ HorariosValidos(horarios)
    /\ bloqueos \in SeqsUpTo(SlotsBloqueos, MaxBloqueos)
    /\ \E c \in SlotsConfigs : config = [e \in SlotsEspecialistas |-> IF e = 1 THEN c ELSE NULL]
    /\ turnos \in SeqsUpTo(SlotsTurnos, MaxTurnos)
    /\ pagos = [i \in DOMAIN turnos |-> Some(PENDIENTE)]
    /\ suscripcion = NULL
    /\ req = <<>>
    /\ consulta = NULL
    /\ validacion = NULL
    /\ proximas = NULL
    /\ GenIdle

NextSlots == ConsultarSlots

SpecSlots == InitSlots /\ [][NextSlots]_vars

----------------------------------------------------------------------------
(* The validator on tables that do not change: validar_turno is asked about
   a specialist, specialty, date and time, and its answer is kept. *)

Horario(e, esp, dia, inicio, fin, activo) ==
    [especialista_id |-> e, especialidad_id |-> esp, dia_semana |-> dia,
     hora_inicio |-> inicio, hora_fin |-> fin,
     duracion_turno_custom |-> NULL, activo |-> activo]

(* the window 08:00-09:00 of (specialist 1, specialty 1, weekday 0), alone or
   with a window 09:00-10:00 that is inactive, of another specialty, of
   another specialist or of another weekday *)
ValTablasHorarios ==
    { <<>>,
      << Horario(1, 1, 0, 480, 540, TRUE) >>,
      << Horario(1, 1, 0, 540, 600, FALSE) >>,
      << Horario(1, 2, 0, 540, 600, TRUE) >>,
      << Horario(2, 1, 0, 540, 600, TRUE) >>,
      << Horario(1, 1, 1, 540, 600, TRUE) >>,
      << Horario(1, 1, 0, 480, 540, TRUE), Horario(1, 1, 0, 540, 600, TRUE) >> }

(* a full day and 08:30-09:00 of specialist 1 on date 0, a full day of
   specialist 1 on date 1, a full day of specialist 2 and a deactivated one *)
ValBloqueos ==
    { BloqueoFila(1, 0, 0, NULL, NULL, TRUE),
      BloqueoFila(1, 0, 0, Some(510), Some(540), TRUE),
      BloqueoFila(1, 1, 1, NULL, NULL, TRUE),
      BloqueoFila(2, 0, 0, NULL, NULL, TRUE),
      BloqueoFila(1, 0, 0, NULL, NULL, FALSE) }

ValTurnos ==
    { TurnoFila(1, 0, 480, PENDIENTE), TurnoFila(1, 0, 510, CONFIRMADO),
      TurnoFila(1, 0, 480, CANCELADO) }

ValConfigs ==
    {NULL} \cup
    { Some([duracion_turno_minutos |-> 30, pacientes_maximos_dia |-> 1,
            tiempo_buffer_minutos |-> 0, permite_sobreturnos |-> p,
            sobreturnos_maximos |-> IF p THEN 1 ELSE 0]) : p \in BOOLEAN }

ValEspecialistas == {1}
ValEspecialidades == {1}
ValFechas == {0}
ValHoras == {480, 495, 510, 540}

(* a caller of GeneradorTurnos.validar_turno *)
ValidarConsultaDe(e, esp, fecha, hora) ==
    /\ \E bloqueo \in PrimerBloqueo(e, fecha) :
         validacion' = Some([especialista_id |-> e, especialidad_id |-> esp,
                             fecha |-> fecha, hora |-> hora,
                             respuesta |-> ValidarTurnoCon(e, esp, fecha, hora, bloqueo)])
    /\ UNCHANGED <<dbVars, req, consulta, proximas, genVars>>

ValidarConsulta ==
    \E e \in ValEspecialistas, esp \in ValEspecialidades,
       fecha \in ValFechas, hora \in ValHoras :
         ValidarConsultaDe(e, esp, fecha, hora)

InitVal ==
    /\ horarios \in ValTablasHorarios
    /\ bloqueos \in SeqsUpTo(ValBloqueos, MaxBloqueos)
    /\ \E c \in ValConfigs : config = [e \in SlotsEspecialistas |-> IF e = 1 THEN c ELSE NULL]
    /\ turnos \in SeqsUpTo(ValTurnos, MaxTurnos)
    /\ pagos = [i \in DOMAIN turnos |-> Some(PENDIENTE)]
    /\ suscripcion = NULL
    /\ req = <<>>
    /\ consulta = NULL
    /\ validacion = NULL
    /\ proximas = NULL
    /\ GenIdle

NextVal == ValidarConsulta

SpecVal == InitVal /\ [][NextVal]_vars

----------------------------------------------------------------------------
(* The slots of one specialist who attends specialty 1 on weekday 0 from
   08:00 to 09:30, over the blocks and the appointments that the tables can
   hold. *)

AgendaHorarios == << Horario(1, 1, 0, 480, 570, TRUE) >>

(* one patient a day, with and without overflow *)
AgendaConfigs ==
    { Some([duracion_turno_minutos |-> 30, pacientes_maximos_dia |-> 1,
            tiempo_buffer_minutos |-> 0, permite_sobreturnos |-> p,
            sobreturnos_maximos |-> IF p THEN 1 ELSE 0]) : p \in BOOLEAN }

(* of specialist 1: a full day on date 0, 08:30-09:00 and 08:00-08:30 on the
   dates 0 to 7, a deactivated full day; of specialist 2: a full day *)
AgendaBloqueos ==
    { BloqueoFila(1, 0, 0, NULL, NULL, TRUE),
      BloqueoFila(1, 0, 7, Some(510), Some(540), TRUE),
      BloqueoFila(1, 0, 7, Some(480), Some(510), TRUE),
      BloqueoFila(1, 0, 7, NULL, NULL, FALSE),
      BloqueoFila(2, 0, 7, NULL, NULL, TRUE) }

(* appointments of specialist 1 in every state, and one of specialist 2 *)
AgendaTurnos ==
    { TurnoFila(1, 0, 480, PENDIENTE), TurnoFila(1, 0, 510, CONFIRMADO),
      TurnoFila(1, 0, 480, CANCELADO), TurnoFila(1, 0, 510, REALIZADO),
      TurnoFila(2, 0, 540, PENDIENTE) }

InitAgenda ==
    /\ horarios = AgendaHorarios
    /\ bloqueos \in SeqsUpTo(AgendaBloqueos, MaxBloqueos)
    /\ \E c \in AgendaConfigs : config = [e \in SlotsEspecialistas |-> IF e = 1 THEN c ELSE NULL]
    /\ turnos \in SeqsUpTo(AgendaTurnos, MaxTurnos)
    /\ pagos = [i \in DOMAIN turnos |-> Some(PENDIENTE)]
    /\ suscripcion = NULL
    /\ req = <<>>
    /\ consulta = NULL
    /\ validacion = NULL
    /\ proximas = NULL
    /\ GenIdle

NextAgenda == ConsultarSlots

SpecAgenda == InitAgenda /\ [][NextAgenda]_vars

----------------------------------------------------------------------------
(* The scan of the coming dates: the specialist attends 08:00-09:00 on
   weekday 0, on weekday 1 or on both. *)

MaxDias == 3

FechasTablasHorarios ==
    { << Horario(1, 1, 0, 480, 540, TRUE) >>,
      << Horario(1, 1, 1, 480, 540, TRUE) >>,
      << Horario(1, 1, 0, 480, 540, TRUE), Horario(1, 1, 1, 480, 540, TRUE) >> }

FechasBloqueos ==
    { BloqueoFila(1, 0, 0, NULL, NULL, TRUE),
      BloqueoFila(1, 1, 2, NULL, NULL, TRUE),
      BloqueoFila(1, 0, 1, Some(480), Some(510), TRUE) }

FechasTurnos ==
    { TurnoFila(1, 0, 480, PENDIENTE), TurnoFila(1, 0, 510, CONFIRMADO),
      TurnoFila(1, 1, 480, PENDIENTE), TurnoFila(1, 1, 510, CANCELADO) }

FechasEspecialistas == {1}
FechasEspecialidades == {1}
FechasHoy == {0, 1}

(* a caller of obtener_proximas_fechas_disponibles: date.today() and
   dias_adelante are its inputs *)
ConsultarProximasDe(e, esp, hoy, dias) ==
    /\ proximas' = Some([especialista_id |-> e, especialidad_id |-> esp,
                         hoy |-> hoy, dias_adelante |-> dias,
                         fechas |-> ObtenerProximasFechasDisponibles(e, esp, hoy, dias)])
    /\ UNCHANGED <<dbVars, req, consulta, validacion, genVars>>

ConsultarProximas ==
    \E e \in FechasEspecialistas, esp \in FechasEspecialidades,
       hoy \in FechasHoy, dias \in 0..MaxDias :
         ConsultarProximasDe(e, esp, hoy, dias)

InitFechas ==
    /\ horarios \in FechasTablasHorarios
    /\ bloqueos \in SeqsUpTo(FechasBloqueos, MaxBloqueos)
    /\ \E c \in AgendaConfigs : config = [e \in SlotsEspecialistas |-> IF e = 1 THEN c ELSE NULL]
    /\ turnos \in SeqsUpTo(FechasTurnos, MaxTurnos)
    /\ pagos = [i \in DOMAIN turnos |-> Some(PENDIENTE)]
    /\ suscripcion = NULL
    /\ req = <<>>
    /\ consulta = NULL
    /\ validacion = NULL
    /\ proximas = NULL
    /\ GenIdle

NextFechas == ConsultarProximas

SpecFechas == InitFechas /\ [][NextFechas]_vars

----------------------------------------------------------------------------
(* The daily capacity of a specialist who attends two specialties on weekday
   0 from 08:00 to 09:30 and takes one patient a day: the slots and the
   validator are asked about appointments of both specialties, of another
   specialist and of another date. *)

TurnoDe(e, esp, fecha, hora, estado) ==
    [especialista_id |-> e, especialidad_id |-> esp, fecha |-> fecha,
     hora |-> hora, estado |-> estado, prepaga |-> FALSE]

CupoHorarios ==
    << Horario(1, 1, 0, 480, 570, TRUE), Horario(1, 2, 0, 480, 570, TRUE) >>

CupoTurnos ==
    { TurnoDe(1, 2, 0, 480, PENDIENTE), TurnoDe(1, 2, 0, 510, CONFIRMADO),
      TurnoDe(1, 2, 0, 480, CANCELADO), TurnoDe(2, 1, 0, 480, PENDIENTE),
      TurnoDe(1, 1, 7, 480, PENDIENTE) }

InitCupo ==
    /\ horarios = CupoHorarios
    /\ bloqueos = <<>>
    /\ \E c \in AgendaConfigs : config = [e \in SlotsEspecialistas |-> IF e = 1 THEN c ELSE NULL]
    /\ turnos \in SeqsUpTo(CupoTurnos, MaxTurnos)
    /\ pagos = [i \in DOMAIN turnos |-> Some(PENDIENTE)]
    /\ suscripcion = NULL
    /\ req = <<>>
    /\ consulta = NULL
    /\ validacion = NULL
    /\ proximas = NULL
    /\ GenIdle

NextCupo == ConsultarSlots \/ ValidarConsulta

SpecCupo == InitCupo /\ [][NextCupo]_vars

----------------------------------------------------------------------------
(* The administration of the windows: agregar_horario and eliminar_horario
   on the windows of one specialist, each request served as a whole. *)

MaxFilasHorarios == 3

FormEspecialistas == {1}
FormEspecialidades == {1, 2}
FormDias == {0}
FormHoras == {480, 510, 540}

(* agregar_horario, line 381: the new window overlaps the stored window h *)
SeSolapa_soloInicio(hora_inicio, hora_fin, h) ==
    hora_inicio >= h.hora_inicio /\ hora_inicio < h.hora_fin
SeSolapa(hora_inicio, hora_fin, h) ==
    ~(hora_fin <= h.hora_inicio \/ hora_inicio >= h.hora_fin)

(* agregar_horario, lines 372-377: the active windows of the triple *)
HorariosExistentes(e, esp, dia) ==
    { i \in DOMAIN horarios : /\ horarios[i].especialista_id = e
                              /\ horarios[i].especialidad_id = esp
                              /\ horarios[i].dia_semana = dia
                              /\ horarios[i].activo }

(* agregar_horario: a window that ends at or before its start, or overlaps
   an active window of the triple, is refused with a flash message; any other
   window is stored as active *)
AgregarHorario ==
    /\ Len(horarios) < MaxFilasHorarios
    /\ \E e \in FormEspecialistas, esp \in FormEspecialidades, dia \in FormDias,
          hora_inicio \in FormHoras, hora_fin \in FormHoras :
         IF hora_fin <= hora_inicio
         THEN UNCHANGED horarios
         ELSE IF \E i \in HorariosExistentes(e, esp, dia) :
                    SeSolapa(hora_inicio, hora_fin, horarios[i])
         THEN UNCHANGED horarios
         ELSE horarios' = Append(horarios, Horario(e, esp, dia, hora_inicio, hora_fin, TRUE))
    /\ UNCHANGED <<config, bloqueos, turnos, pagos, suscripcion, req, respVars, genVars>>

(* eliminar_horario: the window is deactivated, never deleted *)
EliminarHorario ==
    /\ \E i \in DOMAIN horarios :
         horarios' = [horarios EXCEPT ![i].activo = FALSE]
    /\ UNCHANGED <<config, bloqueos, turnos, pagos, suscripcion, req, respVars, genVars>>

InitHorarios ==
    /\ horarios = <<>>
    /\ bloqueos = <<>>
    /\ config = [e \in SlotsEspecialistas |-> NULL]
    /\ turnos = <<>>
    /\ pagos = <<>>
    /\ suscripcion = NULL
    /\ req = <<>>
    /\ consulta = NULL
    /\ validacion = NULL
    /\ proximas = NULL
    /\ GenIdle

NextHorarios == AgregarHorario \/ EliminarHorario

SpecHorarios == InitHorarios /\ [][NextHorarios]_vars

----------------------------------------------------------------------------
(* The administration of the blocks: crear_bloqueo. *)

BloqueoEspecialistas == {1}
BloqueoFechas == {0, 1}
BloqueoHorasInicio == {NULL, Some(480)}
BloqueoHorasFin == {NULL, Some(540)}

(* crear_bloqueo: the two dates are required, each of the two times is parsed
   when its field is filled and None otherwise; the row is stored as given *)
CrearBloqueo ==
    /\ Len(bloqueos) < MaxBloqueos
    /\ \E e \in BloqueoEspecialistas, fecha_inicio \in BloqueoFechas,
          fecha_fin \in BloqueoFechas,
          hora_inicio \in BloqueoHorasInicio, hora_fin \in BloqueoHorasFin :
         bloqueos' = Append(bloqueos,
                            BloqueoFila(e, fecha_inicio, fecha_fin, hora_inicio, hora_fin, TRUE))
    /\ UNCHANGED <<config, horarios, turnos, pagos, suscripcion, req, respVars, genVars>>

InitBloqueos == InitHorarios

NextBloqueos == CrearBloqueo

SpecBloqueos == InitBloqueos /\ [][NextBloqueos]_vars

----------------------------------------------------------------------------
(* The ledger of appointments under every operation that reads or writes it:
   the booking and the state transitions of src/app.py, served one request at
   a time, and the three queries of GeneradorTurnos, asked about the
   specialist, the specialty and the date of the bookings. *)

LibroHoras == {480}
LibroHoy == BookFechas
LibroDias == {1}

(* a booking request for the first slot of the window, served alone *)
NuevoTurnoCheckLibro == NuevoTurnoCheckEn(1, LibroHoras)

ConsultarSlotsLibro ==
    \E e \in BookEspecialistas, esp \in BookEspecialidades, fecha \in BookFechas :
       ConsultarSlotsDe(e, esp, fecha)

ValidarLibro ==
    \E e \in BookEspecialistas, esp \in BookEspecialidades, fecha \in BookFechas,
       hora \in LibroHoras :
         ValidarConsultaDe(e, esp, fecha, hora)

ConsultarProximasLibro ==
    \E e \in BookEspecialistas, esp \in BookEspecialidades, hoy \in LibroHoy,
       dias \in LibroDias :
         ConsultarProximasDe(e, esp, hoy, dias)

InitLibro ==
    /\ Init
    /\ suscripcion = NULL

NextLibro ==
    \/ NuevoTurnoCheckLibro
    \/ NuevoTurnoCommit
    \/ CancelarTurno
    \/ SubirComprobante
    \/ MarcarAbonado
    \/ AprobarPago
    \/ RechazarPago
    \/ AtenderTurno
    \/ ConsultarSlotsLibro
    \/ ValidarLibro
    \/ ConsultarProximasLibro

SpecLibro == InitLibro /\ [][NextLibro]_vars

----------------------------------------------------------------------------
(* Properties of generar_slots (SpecGen) *)

GenTerminado == g_pc = "done"

(* C7: every slot (start, end) the generator produces for a window has
   start >= window.hora_inicio and end <= window.hora_fin, for every duration
   and buffer. *)
C7_SlotsDentroDeVentana ==
    \A i \in 1..Len(slots) :
        /\ slots[i][1] >= g_horario.hora_inicio
        /\ slots[i][2] <= g_horario.hora_fin

(* a finished call with a buffer that kept several slots and dropped the
   trailing one that did not fit *)
C7_Witness ==
    /\ GenTerminado
    /\ Len(slots) >= 2
    /\ Buffer(g_horario) > 0
    /\ slots[Len(slots)][2] + Buffer(g_horario) < g_horario.hora_fin

(* C8: no two slots of one window overlap, and each slot starts exactly
   buffer minutes after the end of the slot before it. *)
C8_SinSolapeYBufferExacto ==
    /\ \A i, j \in 1..Len(slots) : i < j => slots[i][2] <= slots[j][1]
    /\ \A i \in 1..(Len(slots) - 1) :
           slots[i + 1][1] = slots[i][2] + Buffer(g_horario)

C8_Witness ==
    /\ GenTerminado
    /\ Len(slots) >= 3
    /\ Buffer(g_horario) > 0

(* C9: the generator returns exactly the slots
   [start + k*(duration+buffer), start + k*(duration+buffer) + duration)
   for k = 0, 1, 2, ... as long as the slot end is <= window.hora_fin, with no
   partial trailing slot; 08:00-10:00 with duration 30 gives 4 slots with
   buffer 0 and the slots 08:00, 08:40, 09:20 with buffer 10. *)
SlotK(h, k) ==
    LET inicio == h.hora_inicio + k * (Duracion(h) + Buffer(h))
    IN <<inicio, inicio + Duracion(h)>>

EsEjemplo(h, buffer) ==
    /\ h.hora_inicio = 8 * 60
    /\ h.hora_fin = 10 * 60
    /\ Duracion(h) = 30
    /\ Buffer(h) = buffer

C9_SlotsExactos ==
    GenTerminado =>
      /\ \A k \in 0..(g_horario.hora_fin - g_horario.hora_inicio) :
            /\ (SlotK(g_horario, k)[2] <= g_horario.hora_fin) <=> (k < Len(slots))
            /\ k < Len(slots) => slots[k + 1] = SlotK(g_horario, k)
      /\ EsEjemplo(g_horario, 0) =>
            slots = << <<480, 510>>, <<510, 540>>, <<540, 570>>, <<570, 600>> >>
      /\ EsEjemplo(g_horario, 10) =>
            slots = << <<480, 510>>, <<520, 550>>, <<560, 590>> >>

C9_Witness ==
    /\ GenTerminado
    /\ EsEjemplo(g_horario, 10)
    /\ Len(slots) = 3

(* C10: a second call of the generator on the same window, date and
   configuration returns the same ordered list as the first; nothing the
   first call left behind reaches the second. *)
C10_SegundaLlamadaIgual ==
    (GenTerminado /\ g_llamadas >= 2) => slots = g_anterior

C10_Witness ==
    /\ GenTerminado
    /\ g_llamadas >= 2
    /\ Len(g_anterior) >= 2

(* C18: generar_slots terminates and returns a finite list for every window
   that agregar_horario stores and every duration and buffer that
   crear_especialista / editar_especialista store. *)
C18_GeneradorTermina == <>GenTerminado

(* the call has read the duration *)
GenEnCurso == g_pc # "idle"

(* the duration of the configuration, or 30 minutes without configuration *)
DuracionDeConfig(e) ==
    IF IsNull(config[e]) THEN 30 ELSE Val(config[e]).duracion_turno_minutos

BufferDeConfig(e) ==
    IF IsNull(config[e]) THEN 0 ELSE Val(config[e]).tiempo_buffer_minutos

(* every slot is esperada minutes long and starts BufferDeConfig minutes
   after the end of the slot before it *)
SlotsCon(esperada) ==
    /\ g_duracion = esperada
    /\ \A i \in 1..Len(slots) : slots[i][2] - slots[i][1] = esperada
    /\ \A i \in 1..(Len(slots) - 1) :
          slots[i + 1][1] - slots[i][2] = BufferDeConfig(g_horario.especialista_id)

(* C23: the effective slot duration of the generator is the window's
   duracion_turno_custom when it is set and is not 0, otherwise the
   duracion_turno_minutos of the configuration, otherwise 30 minutes when no
   configuration exists; the effective buffer is the tiempo_buffer_minutos of
   the configuration, or 0 when no configuration exists. *)
C23_DuracionYBufferEfectivos ==
    GenEnCurso =>
       SlotsCon(IF /\ ~IsNull(g_horario.duracion_turno_custom)
                   /\ Val(g_horario.duracion_turno_custom) # 0
                THEN Val(g_horario.duracion_turno_custom)
                ELSE DuracionDeConfig(g_horario.especialista_id))

(* the window stores the override 0 and the call returned several slots of
   the duration of the configuration, a buffer apart *)
C23_Witness ==
    /\ GenTerminado
    /\ g_horario.duracion_turno_custom = Some(0)
    /\ ~IsNull(config[g_horario.especialista_id])
    /\ BufferDeConfig(g_horario.especialista_id) > 0
    /\ Len(slots) >= 2
    /\ g_duracion = DuracionDeConfig(g_horario.especialista_id)

(* C23 as stated: the effective slot duration is the window's
   duracion_turno_custom whenever it is set, otherwise that of the
   configuration, otherwise 30 minutes; the effective buffer is that of the
   configuration, or 0. *)
C23_OverrideSiempreQueEstaPuesto ==
    GenEnCurso =>
       SlotsCon(IF ~IsNull(g_horario.duracion_turno_custom)
                THEN Val(g_horario.duracion_turno_custom)
                ELSE DuracionDeConfig(g_horario.especialista_id))

----------------------------------------------------------------------------
(* Properties of the booking flow (Spec, SpecSec) *)

MismoSlot(a, b) ==
    /\ a.especialista_id = b.especialista_id
    /\ a.fecha = b.fecha
    /\ a.hora = b.hora

(* the step inserts an appointment *)
Inserta == Len(turnos') = Len(turnos) + 1

Insertado == turnos'[Len(turnos')]

(* C1: of two nuevo_turno requests for the same (specialist, date, time)
   whose checks and inserts interleave, exactly one creates an appointment:
   a request never inserts at a slot at which another appointment was
   created after the request made its check. *)
C1_UnSoloTurnoConcurrente ==
    [][ Inserta =>
          \A r \in DOMAIN req :
             (req' = Quitar(req, r) /\ MismoSlot(req[r], Insertado)) =>
                \A i \in (req[r].visto + 1)..Len(turnos) :
                   ~MismoSlot(turnos[i], Insertado) ]_vars

(* C2: after any sequence of bookings, payment approvals, cash payments,
   cancellations and mark-done operations, also a strictly sequential one, no
   two PENDIENTE/CONFIRMADO appointments share (specialist, date, time). *)
C2_SinDobleReserva ==
    \A i, j \in DOMAIN turnos :
       (i < j /\ Ocupa(turnos[i]) /\ Ocupa(turnos[j])) => ~MismoSlot(turnos[i], turnos[j])

(* C3: with the configuration unchanged, the PENDIENTE/CONFIRMADO
   appointments of a specialist on one date never exceed
   pacientes_maximos_dia when overflow is not allowed, nor
   pacientes_maximos_dia + sobreturnos_maximos when it is. *)
C3_CupoRespetado ==
    \A e \in BookEspecialistas, fecha \in BookFechas :
       LET cfg == Val(ConfigDe(e))
       IN TurnosDelDia(e, fecha) <=
            IF cfg.permite_sobreturnos
            THEN cfg.pacientes_maximos_dia + cfg.sobreturnos_maximos
            ELSE cfg.pacientes_maximos_dia

(* C4: nuevo_turno inserts an appointment only if validar_turno accepts it in
   the ledger as it is when the appointment is inserted; a time outside every
   active window or inside an active block creates no appointment. *)
C4_InsertaSoloSiValido ==
    [][ Inserta =>
          ValidarTurno(Insertado.especialista_id, Insertado.especialidad_id,
                       Insertado.fecha, Insertado.hora).ok ]_vars

(* the appointment with id i exists before and after the step and its state
   changes from desde to hasta *)
Cambia(i, desde, hasta) ==
    /\ i \in DOMAIN turnos
    /\ turnos[i].estado = desde
    /\ turnos'[i].estado = hasta

(* C12: once an appointment is CANCELADO or REALIZADO, no operation
   (cancelar_turno, aprobar_pago, marcar_abonado, atender_turno) changes its
   state again. *)
C12_EstadosTerminales ==
    [][ \A i \in DOMAIN turnos :
           turnos[i].estado \in {CANCELADO, REALIZADO} =>
              turnos'[i].estado = turnos[i].estado ]_vars

(* C13: every state change of an appointment is one of
   PENDIENTE -> CONFIRMADO, CONFIRMADO -> REALIZADO, PENDIENTE -> CANCELADO,
   CONFIRMADO -> CANCELADO; atender_turno moves only a CONFIRMADO appointment
   to REALIZADO and a confirmation moves only a PENDIENTE one to CONFIRMADO. *)
C13_TransicionesPermitidas ==
    [][ \A i \in DOMAIN turnos :
           turnos'[i].estado # turnos[i].estado =>
              \/ Cambia(i, PENDIENTE, CONFIRMADO)
              \/ Cambia(i, CONFIRMADO, REALIZADO)
              \/ Cambia(i, PENDIENTE, CANCELADO)
              \/ Cambia(i, CONFIRMADO, CANCELADO) ]_vars

(* the payment of appointment i is approved or was made in cash *)
PagoAcreditado(i) ==
    /\ ~IsNull(pagos[i])
    /\ Val(pagos[i]) \in {APROBADO, ABONADO_EFECTIVO}

(* C29: every CONFIRMADO appointment has a payment that is APROBADO or
   ABONADO_EFECTIVO, or was booked through a prepaid plan; after any sequence
   of approvals, rejections, cash payments and receipt uploads. *)
C29_ConfirmadoEstaPago ==
    \A i \in DOMAIN turnos :
       turnos[i].estado = CONFIRMADO => (turnos[i].prepaga \/ PagoAcreditado(i))

(* the appointments confirmed by the plan at their booking *)
ConfirmadosPorPlan == { i \in DOMAIN turnos : turnos[i].prepaga }

(* C30: for one active subscription, after any sequence of bookings, one
   after another or interleaved, the appointments confirmed by the plan are
   never more than consultas_disponibles and consultas_consumidas is their
   number. *)
C30_ConsultasDelPlan ==
    ~IsNull(suscripcion) =>
       /\ Cardinality(ConfirmadosPorPlan) <= Val(suscripcion).consultas_disponibles
       /\ Val(suscripcion).consultas_consumidas = Cardinality(ConfirmadosPorPlan)

----------------------------------------------------------------------------
(* Properties of the ledger (SpecLibro) *)

(* the step appends exactly one appointment and leaves the others alone *)
AgregaUno ==
    /\ Len(turnos') = Len(turnos) + 1
    /\ SubSeq(turnos', 1, Len(turnos)) = turnos

(* the step changes the estado of exactly one appointment and nothing else *)
CambiaUnEstado ==
    /\ Len(turnos') = Len(turnos)
    /\ \E i \in DOMAIN turnos :
          /\ turnos'[i].estado # turnos[i].estado
          /\ turnos' = [turnos EXCEPT ![i].estado = turnos'[i].estado]

(* the step is the answer of one of the three queries *)
Responde ==
    \/ consulta' # consulta
    \/ validacion' # validacion
    \/ proximas' # proximas

(* C25: obtener_slots_disponibles, obtener_proximas_fechas_disponibles and
   validar_turno leave the ledger of appointments as it was; no operation
   removes an appointment; the ledger changes only by a booking that appends
   exactly one appointment or by a state transition that changes the estado
   of exactly one existing appointment. *)
C25_LibroSoloCrece ==
    [][ /\ Responde => turnos' = turnos
        /\ Len(turnos') >= Len(turnos)
        /\ turnos' # turnos => (AgregaUno \/ CambiaUnEstado) ]_vars

(* the three queries have been answered on a ledger that holds a cancelled
   appointment and an occupying one booked after it: the slot is listed as
   taken by the second appointment and the validator finds it *)
C25_Witness ==
    /\ Len(turnos) = 2
    /\ turnos[1].estado = CANCELADO
    /\ turnos[2].estado = CONFIRMADO
    /\ ~IsNull(consulta) /\ ~IsNull(validacion) /\ ~IsNull(proximas)
    /\ \E k \in DOMAIN Val(consulta).slots :
          Val(consulta).slots[k].turno_id = Some(2)
    /\ Val(validacion).respuesta = Respuesta(FALSE, "Ya existe un turno en ese horario")
    /\ Val(proximas).fechas = <<>>

----------------------------------------------------------------------------
(* Properties of obtener_slots_disponibles (SpecSlots) *)

Consultado == ~IsNull(consulta)

EsDiaCompleto(b) == IsNull(b.hora_inicio) /\ IsNull(b.hora_fin)

(* the block is timed and its range holds the time *)
CubreHora(b, hora) ==
    /\ ~IsNull(b.hora_inicio)
    /\ ~IsNull(b.hora_fin)
    /\ Val(b.hora_inicio) <= hora
    /\ hora < Val(b.hora_fin)

CubreFecha(b, e, fecha) ==
    /\ b.especialista_id = e
    /\ b.activo
    /\ b.fecha_inicio <= fecha
    /\ fecha <= b.fecha_fin

(* the rows the windows of the query would give with no block at all *)
SlotsSinBloqueos(c) ==
    TodosSlots(HorariosDelDia(c.especialista_id, c.especialidad_id, Weekday(c.fecha)),
               <<>>, c.especialista_id, c.fecha)

(* an active window of the (specialist, specialty, weekday) of the question *)
VentanaDe(h, v) ==
    /\ h.activo
    /\ h.especialista_id = v.especialista_id
    /\ h.especialidad_id = v.especialidad_id
    /\ h.dia_semana = Weekday(v.fecha)

(* C5: for a date covered by an active full-day block of the specialist,
   obtener_slots_disponibles returns the empty list, whatever the windows,
   the other blocks (timed or not, in any order) and the bookings are. *)
C5_DiaBloqueadoSinSlots ==
    Consultado =>
       LET c == Val(consulta)
       IN (\E i \in DOMAIN bloqueos :
              CubreFecha(bloqueos[i], c.especialista_id, c.fecha) /\ EsDiaCompleto(bloqueos[i]))
          => c.slots = <<>>

(* the full-day block is stored after a timed block of the same date, the
   specialist has windows with slots that day, a configuration and room *)
C5_Witness ==
    /\ Consultado
    /\ Len(bloqueos) >= 2
    /\ ~EsDiaCompleto(bloqueos[1])
    /\ CubreFecha(bloqueos[1], Val(consulta).especialista_id, Val(consulta).fecha)
    /\ EsDiaCompleto(bloqueos[2])
    /\ CubreFecha(bloqueos[2], Val(consulta).especialista_id, Val(consulta).fecha)
    /\ ~IsNull(ConfigDe(Val(consulta).especialista_id))
    /\ ~CupoAgotado(TurnosDelDia(Val(consulta).especialista_id, Val(consulta).fecha),
                    Val(ConfigDe(Val(consulta).especialista_id)))
    /\ \E k \in DOMAIN SlotsSinBloqueos(Val(consulta)) :
          ~(SlotsSinBloqueos(Val(consulta))[k].hora_inicio >= 510
            /\ SlotsSinBloqueos(Val(consulta))[k].hora_inicio < 540)
    /\ Val(consulta).slots = <<>>

(* C6: when the PENDIENTE/CONFIRMADO appointments of the specialist on the
   date are >= pacientes_maximos_dia and overflow is not allowed,
   obtener_slots_disponibles returns the empty list, also when the windows
   hold slots that nobody booked. *)
C6_CupoLlenoSinSlots ==
    Consultado =>
       LET c == Val(consulta)
           cfg == ConfigDe(c.especialista_id)
       IN (/\ ~IsNull(cfg)
           /\ TurnosDelDia(c.especialista_id, c.fecha) >= Val(cfg).pacientes_maximos_dia
           /\ ~Val(cfg).permite_sobreturnos)
          => c.slots = <<>>

(* two appointments fill a day of at most two patients, no block covers it
   and a slot of the windows is free *)
C6_Witness ==
    /\ Consultado
    /\ TurnosDelDia(Val(consulta).especialista_id, Val(consulta).fecha) >= 2
    /\ ~IsNull(ConfigDe(Val(consulta).especialista_id))
    /\ TurnosDelDia(Val(consulta).especialista_id, Val(consulta).fecha)
         >= Val(ConfigDe(Val(consulta).especialista_id)).pacientes_maximos_dia
    /\ ~Val(ConfigDe(Val(consulta).especialista_id)).permite_sobreturnos
    /\ BloqueosDelDia(Val(consulta).especialista_id, Val(consulta).fecha) = <<>>
    /\ \E k \in DOMAIN SlotsSinBloqueos(Val(consulta)) :
          SlotsSinBloqueos(Val(consulta))[k].disponible
    /\ Val(consulta).slots = <<>>

(* C16: obtener_slots_disponibles returns the empty list, and raises
   nothing, whenever the specialist has no active window for (specialty,
   weekday(date)) or has no ConfiguracionEspecialista. *)
C16_SinVentanaOSinConfigVacio ==
    Consultado =>
       LET c == Val(consulta)
       IN (\/ ~ \E i \in DOMAIN horarios : VentanaDe(horarios[i], c)
           \/ IsNull(ConfigDe(c.especialista_id)))
          => c.slots = <<>>

(* the specialist has windows with free slots that day and no block, but no
   configuration *)
C16_Witness ==
    /\ Consultado
    /\ IsNull(ConfigDe(Val(consulta).especialista_id))
    /\ BloqueosDelDia(Val(consulta).especialista_id, Val(consulta).fecha) = <<>>
    /\ \E k \in DOMAIN SlotsSinBloqueos(Val(consulta)) :
          SlotsSinBloqueos(Val(consulta))[k].disponible
    /\ Val(consulta).slots = <<>>

(* C24: the list that obtener_slots_disponibles returns is in chronological
   order (slot starts never decrease), also when several active windows exist
   for the same (specialist, specialty, weekday). *)
C24_OrdenCronologico ==
    Consultado =>
       LET c == Val(consulta)
       IN \A i, j \in DOMAIN c.slots :
             i < j => c.slots[i].hora_inicio <= c.slots[j].hora_inicio

----------------------------------------------------------------------------
(* Properties of obtener_slots_disponibles (SpecAgenda) *)

(* an occupying appointment at exactly (specialist, date, time) *)
OcupadoEn(e, fecha, hora) ==
    \E i \in DOMAIN turnos :
       /\ turnos[i].especialista_id = e
       /\ turnos[i].fecha = fecha
       /\ turnos[i].hora = hora
       /\ turnos[i].estado \in {PENDIENTE, CONFIRMADO}

(* C14: for every slot that obtener_slots_disponibles returns, disponible is
   true if and only if no PENDIENTE or CONFIRMADO appointment exists at
   exactly (specialist, date, slot start), and turno_id is None exactly when
   disponible is true; so a slot whose appointment became CANCELADO or
   REALIZADO is listed as disponible again. *)
C14_DisponibleSiNoOcupado ==
    Consultado =>
       LET c == Val(consulta)
       IN \A k \in DOMAIN c.slots :
             /\ c.slots[k].disponible
                   <=> ~OcupadoEn(c.especialista_id, c.fecha, c.slots[k].hora_inicio)
             /\ IsNull(c.slots[k].turno_id) <=> c.slots[k].disponible

(* the appointment of 08:00 was cancelled and the one of 08:30 was attended:
   both slots are listed as disponible *)
C14_Witness ==
    /\ Consultado
    /\ \E i, j \in DOMAIN turnos :
          /\ turnos[i] = TurnoFila(1, 0, 480, CANCELADO)
          /\ turnos[j] = TurnoFila(1, 0, 510, REALIZADO)
    /\ Val(consulta).especialista_id = 1
    /\ Val(consulta).fecha = 0
    /\ \E k, l \in DOMAIN Val(consulta).slots :
          /\ Val(consulta).slots[k].hora_inicio = 480
          /\ Val(consulta).slots[k].disponible
          /\ Val(consulta).slots[l].hora_inicio = 510
          /\ Val(consulta).slots[l].disponible

(* the query gets as far as generating the candidate slots *)
GeneraCandidatos(c) ==
    /\ \E i \in DOMAIN horarios : VentanaDe(horarios[i], c)
    /\ ~IsNull(ConfigDe(c.especialista_id))
    /\ ~CupoAgotado(TurnosDelDia(c.especialista_id, c.fecha),
                    Val(ConfigDe(c.especialista_id)))

Listado(c, hora) == \E k \in DOMAIN c.slots : c.slots[k].hora_inicio = hora

(* C20: a candidate slot is left out of the answer of
   obtener_slots_disponibles, not listed even as taken, if and only if some
   active block of the specialist whose date range holds the date is a
   full-day block or a timed block with hora_inicio <= slot start < hora_fin;
   blocks of other specialists, inactive blocks and blocks whose date range
   does not hold the date remove nothing. *)
C20_OmitidoSiBloqueado ==
    (Consultado /\ GeneraCandidatos(Val(consulta))) =>
       LET c == Val(consulta)
           candidatos == SlotsSinBloqueos(c)
       IN \A k \in DOMAIN candidatos :
             ~Listado(c, candidatos[k].hora_inicio)
                <=> \E i \in DOMAIN bloqueos :
                       /\ CubreFecha(bloqueos[i], c.especialista_id, c.fecha)
                       /\ \/ EsDiaCompleto(bloqueos[i])
                          \/ CubreHora(bloqueos[i], candidatos[k].hora_inicio)

(* the date is 7: the full-day block of date 0 does not hold it, the block
   08:30-09:00 does, and 08:00 is listed while 08:30 is not *)
C20_Witness ==
    /\ Consultado
    /\ GeneraCandidatos(Val(consulta))
    /\ Val(consulta).fecha = 7
    /\ Len(bloqueos) >= 2
    /\ bloqueos[1] = BloqueoFila(1, 0, 0, NULL, NULL, TRUE)
    /\ bloqueos[2] = BloqueoFila(1, 0, 7, Some(510), Some(540), TRUE)
    /\ Listado(Val(consulta), 480)
    /\ ~Listado(Val(consulta), 510)

(* C28: whenever obtener_slots_disponibles lists a slot as disponible,
   validar_turno accepts (specialist, specialty, date, slot start) in the
   same state, whichever row its query of the blocks gives; also when
   overflow is allowed and the appointments of the day have reached
   pacientes_maximos_dia + sobreturnos_maximos. *)
C28_DisponibleImplicaValido ==
    Consultado =>
       LET c == Val(consulta)
       IN \A k \in DOMAIN c.slots :
             c.slots[k].disponible =>
                \A bloqueo \in PrimerBloqueo(c.especialista_id, c.fecha) :
                   ValidarTurnoCon(c.especialista_id, c.especialidad_id, c.fecha,
                                   c.slots[k].hora_inicio, bloqueo).ok

----------------------------------------------------------------------------
(* Properties of obtener_proximas_fechas_disponibles (SpecFechas) *)

Proximado == ~IsNull(proximas)

(* the slots of the date as obtener_slots_disponibles gives them *)
SlotsDeFecha(p, fecha) ==
    ObtenerSlotsDisponibles(p.especialista_id, p.especialidad_id, fecha)

(* C15: obtener_proximas_fechas_disponibles(specialist, specialty, horizon)
   returns, in increasing date order, exactly the dates today + i with
   0 <= i < horizon whose slots hold at least one disponible slot, each with
   slots_disponibles = the number of disponible slots and slots_totales = the
   number of listed slots of that date. *)
C15_ProximasFechasExactas ==
    Proximado =>
       LET p == Val(proximas)
           f == p.fechas
       IN /\ \A i, j \in DOMAIN f : i < j => f[i].fecha < f[j].fecha
          /\ \A d \in p.hoy..(p.hoy + p.dias_adelante - 1) :
                (\E k \in DOMAIN f : f[k].fecha = d)
                   <=> \E n \in DOMAIN SlotsDeFecha(p, d) : SlotsDeFecha(p, d)[n].disponible
          /\ \A k \in DOMAIN f :
                /\ f[k].fecha \in p.hoy..(p.hoy + p.dias_adelante - 1)
                /\ f[k].slots_disponibles =
                      Cardinality({ n \in DOMAIN SlotsDeFecha(p, f[k].fecha) :
                                      SlotsDeFecha(p, f[k].fecha)[n].disponible })
                /\ f[k].slots_totales = Len(SlotsDeFecha(p, f[k].fecha))

(* two dates are returned, a date of the horizon is left out and a returned
   date has a slot that is taken *)
C15_Witness ==
    /\ Proximado
    /\ Len(Val(proximas).fechas) >= 2
    /\ Len(Val(proximas).fechas) < Val(proximas).dias_adelante
    /\ \E k \in DOMAIN Val(proximas).fechas :
          /\ Val(proximas).fechas[k].slots_disponibles >= 1
          /\ Val(proximas).fechas[k].slots_disponibles
                < Val(proximas).fechas[k].slots_totales

----------------------------------------------------------------------------
(* Properties of validar_turno (SpecVal) *)

Validado == ~IsNull(validacion)

NoAtiende == Respuesta(FALSE, "El especialista no atiende en ese horario")

(* C11: validar_turno rejects with "El especialista no atiende en ese
   horario" exactly when no active window of (specialist, specialty,
   weekday(date)) has hora_inicio <= time < hora_fin; a time equal to the end
   of a window is rejected and a time equal to its start passes this step. *)
C11_RechazoFueraDeVentana ==
    Validado =>
       LET v == Val(validacion)
       IN (v.respuesta = NoAtiende) <=>
             ~ \E i \in DOMAIN horarios :
                  /\ VentanaDe(horarios[i], v)
                  /\ horarios[i].hora_inicio <= v.hora
                  /\ v.hora < horarios[i].hora_fin

(* the time asked about is the end of the only window of the day, no block
   covers the date and the slot is free: the answer is the rejection *)
C11_Witness ==
    /\ Validado
    /\ Len(horarios) = 1
    /\ VentanaDe(horarios[1], Val(validacion))
    /\ Val(validacion).hora = horarios[1].hora_fin
    /\ bloqueos = <<>>
    /\ turnos = <<>>
    /\ Val(validacion).respuesta = NoAtiende

CupoDiario == Respuesta(FALSE, "Cupo maximo diario alcanzado")
CupoSobreturnos == Respuesta(FALSE, "Cupo maximo de sobreturnos alcanzado")
TurnoValido == Respuesta(TRUE, "Turno valido")

(* the number of PENDIENTE/CONFIRMADO appointments of the specialist on the
   date, whatever their specialty *)
Cuenta(e, fecha) ==
    Cardinality({ i \in DOMAIN turnos :
                    /\ turnos[i].especialista_id = e
                    /\ turnos[i].fecha = fecha
                    /\ turnos[i].estado \in {PENDIENTE, CONFIRMADO} })

(* the time asked about is inside an active window, no active block of the
   date holds it and no occupying appointment is at it *)
LlegaAlCupo(v) ==
    /\ \E i \in DOMAIN horarios :
          /\ VentanaDe(horarios[i], v)
          /\ horarios[i].hora_inicio <= v.hora
          /\ v.hora < horarios[i].hora_fin
    /\ ~ \E i \in DOMAIN bloqueos :
          /\ CubreFecha(bloqueos[i], v.especialista_id, v.fecha)
          /\ (EsDiaCompleto(bloqueos[i]) \/ CubreHora(bloqueos[i], v.hora))
    /\ ~OcupadoEn(v.especialista_id, v.fecha, v.hora)

(* C21: with count the number of PENDIENTE/CONFIRMADO appointments of the
   specialist on the date and a configuration present, validar_turno on a
   time inside a window, not blocked and not taken rejects with "Cupo maximo
   diario alcanzado" iff count >= pacientes_maximos_dia and overflow is not
   allowed, rejects with "Cupo maximo de sobreturnos alcanzado" iff overflow
   is allowed and count >= pacientes_maximos_dia + sobreturnos_maximos, and
   accepts otherwise. *)
C21_MensajesDeCupo ==
    (/\ Validado
     /\ ~IsNull(ConfigDe(Val(validacion).especialista_id))
     /\ LlegaAlCupo(Val(validacion))) =>
       LET v == Val(validacion)
           cfg == Val(ConfigDe(v.especialista_id))
           count == Cuenta(v.especialista_id, v.fecha)
           diario == count >= cfg.pacientes_maximos_dia /\ ~cfg.permite_sobreturnos
           sobre == /\ cfg.permite_sobreturnos
                    /\ count >= cfg.pacientes_maximos_dia + cfg.sobreturnos_maximos
       IN /\ (v.respuesta = CupoDiario) <=> diario
          /\ (v.respuesta = CupoSobreturnos) <=> sobre
          /\ (v.respuesta = TurnoValido) <=> (~diario /\ ~sobre)

(* overflow is allowed, the day holds pacientes_maximos_dia +
   sobreturnos_maximos appointments and a free time of the window is
   rejected for the overflow capacity *)
C21_Witness ==
    /\ Validado
    /\ ~IsNull(ConfigDe(Val(validacion).especialista_id))
    /\ LlegaAlCupo(Val(validacion))
    /\ Val(ConfigDe(Val(validacion).especialista_id)).permite_sobreturnos
    /\ Cuenta(Val(validacion).especialista_id, Val(validacion).fecha)
          = Val(ConfigDe(Val(validacion).especialista_id)).pacientes_maximos_dia
            + Val(ConfigDe(Val(validacion).especialista_id)).sobreturnos_maximos
    /\ Val(validacion).respuesta = CupoSobreturnos

(* C17: whenever validar_turno accepts (specialist, specialty, date, time),
   obtener_slots_disponibles(specialist, specialty, date) in the same state
   lists a slot that starts at that time and is disponible. *)
C17_ValidoImplicaSlotDisponible ==
    Validado =>
       LET v == Val(validacion)
           ss == ObtenerSlotsDisponibles(v.especialista_id, v.especialidad_id, v.fecha)
       IN v.respuesta.ok =>
             \E k \in DOMAIN ss : ss[k].hora_inicio = v.hora /\ ss[k].disponible

(* C19: validar_turno rejects whenever any active block of the specialist
   whose date range holds the date is a full-day block or a timed block with
   hora_inicio <= time < hora_fin, however many other blocks hold the date
   and in whatever order they are stored. *)
C19_CualquierBloqueoRechaza ==
    Validado =>
       LET v == Val(validacion)
       IN (\E i \in DOMAIN bloqueos :
              /\ CubreFecha(bloqueos[i], v.especialista_id, v.fecha)
              /\ (EsDiaCompleto(bloqueos[i]) \/ CubreHora(bloqueos[i], v.hora)))
          => ~v.respuesta.ok

----------------------------------------------------------------------------
(* Properties of the daily capacity (SpecCupo) *)

(* C22: the daily count used by obtener_slots_disponibles and by
   validar_turno is the number of PENDIENTE/CONFIRMADO appointments of the
   specialist on the date over all specialties: an appointment booked under
   one specialty takes capacity from a query for another specialty of the
   same specialist and date, and appointments of other specialists or of
   other dates are never counted. *)
C22_CupoPorEspecialistaYDia ==
    /\ (/\ Consultado
        /\ \E i \in DOMAIN horarios : VentanaDe(horarios[i], Val(consulta))
        /\ ~IsNull(ConfigDe(Val(consulta).especialista_id))
        /\ ~Val(ConfigDe(Val(consulta).especialista_id)).permite_sobreturnos
        /\ ~ \E i \in DOMAIN bloqueos :
              CubreFecha(bloqueos[i], Val(consulta).especialista_id, Val(consulta).fecha))
       => LET c == Val(consulta)
          IN (c.slots = <<>>)
                <=> Cuenta(c.especialista_id, c.fecha)
                      >= Val(ConfigDe(c.especialista_id)).pacientes_maximos_dia
    /\ (/\ Validado
        /\ ~IsNull(ConfigDe(Val(validacion).especialista_id))
        /\ ~Val(ConfigDe(Val(validacion).especialista_id)).permite_sobreturnos
        /\ LlegaAlCupo(Val(validacion)))
       => LET v == Val(validacion)
          IN (v.respuesta = CupoDiario)
                <=> Cuenta(v.especialista_id, v.fecha)
                      >= Val(ConfigDe(v.especialista_id)).pacientes_maximos_dia

(* the only occupying appointment of the specialist on date 0 was booked
   under specialty 2 and the ledger holds an appointment of another
   specialist or date: the slots of specialty 1 on date 0 are the empty list
   and the validator rejects a free time of specialty 1 for the capacity *)
C22_Witness ==
    /\ Consultado
    /\ Validado
    /\ Val(consulta).especialidad_id = 1
    /\ Val(consulta).fecha = 0
    /\ Val(consulta).slots = <<>>
    /\ Val(validacion).especialidad_id = 1
    /\ Val(validacion).respuesta = CupoDiario
    /\ \A i \in DOMAIN turnos :
          (turnos[i].especialista_id = 1 /\ turnos[i].fecha = 0)
             => turnos[i].especialidad_id = 2
    /\ \E i \in DOMAIN turnos :
          turnos[i].especialista_id # 1 \/ turnos[i].fecha # 0

----------------------------------------------------------------------------
(* Properties of agregar_horario and eliminar_horario (SpecHorarios) *)

MismaTerna(a, b) ==
    /\ a.especialista_id = b.especialista_id
    /\ a.especialidad_id = b.especialidad_id
    /\ a.dia_semana = b.dia_semana

(* the two windows share more than an endpoint *)
Comparten(a, b) == a.hora_inicio < b.hora_fin /\ b.hora_inicio < a.hora_fin

(* the window w could be added to the stored windows *)
Aceptable(w) ==
    /\ w.hora_fin > w.hora_inicio
    /\ \A i \in DOMAIN horarios :
          (horarios[i].activo /\ MismaTerna(horarios[i], w)) => ~Comparten(horarios[i], w)

VentanasBienFormadas ==
    /\ \A i \in DOMAIN horarios :
          horarios[i].activo => horarios[i].hora_fin > horarios[i].hora_inicio
    /\ \A i, j \in DOMAIN horarios :
          (/\ i # j
           /\ horarios[i].activo /\ horarios[j].activo
           /\ MismaTerna(horarios[i], horarios[j]))
             => ~Comparten(horarios[i], horarios[j])

(* C26: after any sequence of agregar_horario and eliminar_horario, every
   active window has hora_fin > hora_inicio and two distinct active windows
   of the same (specialist, specialty, weekday) do not overlap (windows that
   touch at an endpoint are allowed); a refused agregar_horario leaves the
   stored windows as they were, so a window is appended only when it is
   acceptable. *)
C26_VentanasSinSolape ==
    /\ []VentanasBienFormadas
    /\ [][ Len(horarios') > Len(horarios) =>
             /\ Aceptable(horarios'[Len(horarios')])
             /\ horarios' = Append(horarios, horarios'[Len(horarios')]) ]_vars

(* a window that was eliminated is overlapped by an active window added
   later, which touches another active window of the same triple *)
C26_Witness ==
    \E i, j, k \in DOMAIN horarios :
       /\ i < j
       /\ ~horarios[i].activo /\ horarios[j].activo /\ horarios[k].activo
       /\ MismaTerna(horarios[i], horarios[j]) /\ MismaTerna(horarios[j], horarios[k])
       /\ Comparten(horarios[i], horarios[j])
       /\ horarios[j].hora_fin = horarios[k].hora_inicio

----------------------------------------------------------------------------
(* Properties of crear_bloqueo (SpecBloqueos) *)

(* C27: every block stored by crear_bloqueo has fecha_fin >= fecha_inicio and
   its two times both present or both absent; a request that gives exactly
   one of the two times stores no block. *)
C27_BloqueosBienFormados ==
    \A i \in DOMAIN bloqueos :
       /\ bloqueos[i].fecha_fin >= bloqueos[i].fecha_inicio
       /\ IsNull(bloqueos[i].hora_inicio) <=> IsNull(bloqueos[i].hora_fin)

====
